---- MODULE Spec2Model ----
(***************************************************************************)
(* The PubSub event bus (class PubSub, pubSub.ts) as a state machine.      *)
(*                                                                         *)
(* channels is the Map<event, Set<Listener>> of one PubSub instance.  A    *)
(* JavaScript Set iterates in insertion order and its iterator is live:    *)
(* an element added while a for-of loop runs is visited by that loop, an   *)
(* element deleted before its turn is not.  A Set is therefore a sequence  *)
(* without duplicates, and a for-of loop is a position in that sequence    *)
(* (the number of entries it has passed); deleting an entry the loop has   *)
(* passed moves the position back by one, so the loop resumes at the same  *)
(* remaining entries.                                                      *)
(*                                                                         *)
(* publish() keeps a reference to the Set object it read from the map.     *)
(* While that object is still the one in the map the frame is "attached"   *)
(* and reads channels[event].  channels.delete(event) / channels.clear()   *)
(* take the object out of the map; nothing can reach it any more (every    *)
(* subscribe and unsubscribe goes through channels.get), so the frame      *)
(* keeps the object's contents by value from then on (field listeners).    *)
(*                                                                         *)
(* The program is single-threaded: stack is the call stack of publish()    *)
(* calls.  A listener body is arbitrary user code: while it runs it may    *)
(* call any bus operation, return, or throw.                               *)
(*                                                                         *)
(* other is the registry of a second PubSub instance (SpecInstances), and  *)
(* users is the in-memory store of the user service (user.service.ts,      *)
(* SpecUsers); both stay as they are in the specifications of the one bus. *)
(***************************************************************************)
EXTENDS Naturals, Sequences, FiniteSets, TLC

VARIABLES
    channels,   \* PubSub.channels: event -> Set of listeners (insertion order)
    stack,      \* the publish() calls in progress, innermost last
    fns,        \* the functions returned by subscribe() that callers kept
    opsLeft,    \* bus operations the listener bodies of this dispatch may still make
    last,       \* the call that completed in the step leading to this state
    seen,       \* what the publish() calls that returned did with the listeners
                \* removed (seen.of = "removals") or added ("additions") during
                \* their dispatch, or the events whose publish() raised
                \* ("throws"); not recorded when seen.of = "nothing"
    other,      \* PubSub.channels of a second instance (new PubSub())
    users       \* the users array of the user service (user.service.ts)

vars == <<channels, stack, fns, opsLeft, last, seen, other, users>>

\* keyof TEvents: the event names of the usage script.
Events == {"message", "count"}
\* Function references that are used as listeners.
Listeners == {"l1", "l2"}
\* TEvents[event]: the payloads the usage script publishes (message: string,
\* count: number).
Payloads(event) ==
    IF event = "message" THEN {"Hello subscribers!", "Nobody hears this"} ELSE {"42"}

\* Bus operations that listener bodies make during one top-level publish().
MaxOps == 2
\* Returned unsubscribe functions that callers hold on to.
MaxFns == 1
\* publish() calls in progress at once (a listener that publishes nests one).
MaxDepth == 2
\* The subscribe call whose returned function the usage script keeps:
\* const stopMessageListener = bus.subscribe('message', ...).
Kept == {<<"message", "l1">>}

NoListener == "none"

----------------------------------------------------------------------------
(* Set<Listener> *)

Range(s) == {s[i] : i \in 1..Len(s)}

Has(s, listener) == listener \in Range(s)

\* An add written as push on an array: no look at what is already there.
SetAddAlways(s, listener) == Append(s, listener)

\* An add written as delete followed by push: a reference that is already
\* present moves to the end.
SetAddMovesToEnd(s, listener) == Append(SelectSeq(s, LAMBDA x : x # listener), listener)

\* Set.prototype.add: appends unless the reference is already present.
SetAdd(s, listener) == IF Has(s, listener) THEN s ELSE Append(s, listener)

\* A delete written as splice(indexOf(listener), 1): an absent listener gives
\* index -1 and the last element goes.
SetDeleteSplice(s, listener) ==
    IF Has(s, listener) THEN SelectSeq(s, LAMBDA x : x # listener)
    ELSE SubSeq(s, 1, Len(s) - 1)

\* A delete written as shift(): the oldest entry goes when the listener is
\* in the Set.
SetDeleteFirst(s, listener) == IF Has(s, listener) THEN Tail(s) ELSE s

\* A delete written as pop(): the newest entry goes, whichever it is.
SetDeletePop(s, listener) == SubSeq(s, 1, Len(s) - 1)

\* Set.prototype.delete.
SetDelete(s, listener) == SelectSeq(s, LAMBDA x : x # listener)

\* An index-based loop over an array that is spliced under it: the position
\* stays where it was.
ShiftNone(pos, s, listener) == pos

\* The position of a live for-of loop over s after listener was deleted from s.
Shift(pos, s, listener) ==
    IF \E i \in 1..pos : s[i] = listener THEN pos - 1 ELSE pos

----------------------------------------------------------------------------
(* The registry: Map<event, Set<Listener>> *)

\* channels.get(event) is undefined when the map has no entry for event.
HasEntry(ch, event) == event \in DOMAIN ch

\* The listeners subscribed to event (none when there is no entry).
Subscribers(ch, event) == IF HasEntry(ch, event) THEN Range(ch[event]) ELSE {}

\* Map.prototype.set.
MapSet(ch, event, s) == [e \in DOMAIN ch \cup {event} |-> IF e = event THEN s ELSE ch[e]]

\* Map.prototype.delete.
MapDelete(ch, event) == [e \in DOMAIN ch \ {event} |-> ch[e]]

\* Map.prototype.clear.
MapClear(ch) == [e \in {} |-> <<>>]

\* A subscribe written as channels.get(event)?.add(listener): it never makes
\* the Set of a channel that has none.
SubscribedIfEntry(ch, event, listener) ==
    IF HasEntry(ch, event) THEN MapSet(ch, event, SetAdd(ch[event], listener)) ELSE ch

\* subscribe: channels.get(event) ?? new Set; listeners.add; channels.set.
Subscribed(ch, event, listener) ==
    MapSet(ch, event, SetAdd(IF HasEntry(ch, event) THEN ch[event] ELSE <<>>, listener))

\* An unsubscribe that deletes the entry without looking at the Set's size.
UnsubscribedDropsEntry(ch, event, listener) ==
    IF ~HasEntry(ch, event) THEN ch ELSE MapDelete(ch, event)

\* An unsubscribe without lines 47-49: the emptied Set stays in the map.
UnsubscribedKeepsEntry(ch, event, listener) ==
    IF ~HasEntry(ch, event) THEN ch
    ELSE MapSet(ch, event, SetDelete(ch[event], listener))

\* An unsubscribe that deletes the entry when listeners.delete returned false
\* as well: if (!listeners.delete(listener) || listeners.size === 0).
UnsubscribedPrunesAbsent(ch, event, listener) ==
    IF ~HasEntry(ch, event) THEN ch
    ELSE IF ~Has(ch[event], listener) \/ Len(SetDelete(ch[event], listener)) = 0
         THEN MapDelete(ch, event)
    ELSE MapSet(ch, event, SetDelete(ch[event], listener))

\* An unsubscribe that takes the listener out of the Set of every channel.
UnsubscribedEverywhere(ch, event, listener) ==
    [e \in {x \in DOMAIN ch : Len(SetDelete(ch[x], listener)) > 0} |->
        SetDelete(ch[e], listener)]

\* unsubscribe: early return without an entry; listeners.delete; the entry is
\* deleted when the Set became empty.
Unsubscribed(ch, event, listener) ==
    IF ~HasEntry(ch, event) THEN ch
    ELSE IF Len(SetDelete(ch[event], listener)) = 0 THEN MapDelete(ch, event)
    ELSE MapSet(ch, event, SetDelete(ch[event], listener))

\* A clear that ignores its argument: channels.clear() whatever event is.
ClearedEverything(ch, event) == MapClear(ch)

\* clear(event): channels.delete(event).
Cleared(ch, event) == MapDelete(ch, event)

\* A clear() whose test for the missing argument fails: it runs
\* channels.delete(undefined), which removes nothing.
ClearedAllDeletesUndefined(ch) == MapDelete(ch, "undefined")

\* clear(): channels.clear().
ClearedAll(ch) == MapClear(ch)

----------------------------------------------------------------------------
(* publish() calls in progress *)

\* A publish() call that is iterating:
\*   event, payload   its arguments
\*   attached         its Set object is still the one channels holds for event
\*   listeners        the contents of its Set object once that left the map
\*   pos              entries of the Set the for-of loop has passed
\*   running          the listener whose body is executing, or NoListener
\*   calls            the invocations it made so far, <<listener, payload>>
\*   snapshot         the listeners subscribed to event when the call began
\*   ops              the bus operations listener bodies made during the call
\*   subd             listeners that were subscribed to event during the call
\*   early            listeners of snapshot removed from event before their
\*                    turn in this call and not subscribed again since
NewFrame(ch, event, payload) ==
    [event |-> event, payload |-> payload, attached |-> TRUE, listeners |-> <<>>,
     pos |-> 0, running |-> NoListener, calls |-> <<>>,
     snapshot |-> Subscribers(ch, event), ops |-> {}, subd |-> {}, early |-> {}]

\* The Set object a publish() call iterates (const listeners, line 59).
Iterated(ch, f) == IF f.attached THEN ch[f.event] ELSE f.listeners

Invoked(f) == {f.calls[i][1] : i \in 1..Len(f.calls)}

Times(f, listener) == Cardinality({i \in 1..Len(f.calls) : f.calls[i][1] = listener})

\* A publish that iterates a copy of the Set ([...listeners]): a delete
\* leaves what the loop goes over as it was.
FrameDeletedCopy(ch, f, event, listener) ==
    IF f.attached /\ f.event = event /\ HasEntry(ch, event)
    THEN [f EXCEPT !.attached = FALSE, !.listeners = ch[event]]
    ELSE f

\* A frame after listeners.delete(listener) on the Set of event in ch; the Set
\* leaves the map when that emptied it.
FrameDeleted(ch, f, event, listener) ==
    IF f.attached /\ f.event = event /\ HasEntry(ch, event)
    THEN [f EXCEPT !.pos = Shift(f.pos, ch[event], listener),
                   !.attached = HasEntry(Unsubscribed(ch, event, listener), event),
                   !.listeners = <<>>]
    ELSE f

\* A frame after channels.delete(event): its Set object is out of the map and
\* keeps what it held.
FrameDetached(ch, f, event) ==
    IF f.attached /\ f.event = event
    THEN [f EXCEPT !.attached = FALSE, !.listeners = ch[event]]
    ELSE f

\* Bookkeeping of a call in progress: gone are the listeners an operation of
\* kind op took out of event, back the listener it subscribed to event.
Noted(f, op, event, gone, back) ==
    [f EXCEPT !.ops = @ \cup {op},
              !.subd = IF f.event = event THEN @ \cup back ELSE @,
              !.early = IF f.event = event
                        THEN (@ \ back) \cup ((gone \cap f.snapshot) \ Invoked(f))
                        ELSE @]

\* A dispatcher that serves the publish() call that began first.
TopOutermost == stack[1]

\* The innermost publish() call in progress: the frame on top of the call stack.
Top == stack[Len(stack)]

\* Who may call the bus: outside code when no publish() is in progress, else
\* the body of the listener that is running.
CanCall == IF Len(stack) = 0 THEN TRUE ELSE Top.running # NoListener /\ opsLeft > 0

\* The specification of termination (seen.of = "termination") puts no bound
\* on the operations of listener bodies and keeps no record of the calls made.
Unbounded == seen.of = "termination"

Spent == IF Len(stack) = 0 THEN opsLeft ELSE IF Unbounded THEN opsLeft ELSE opsLeft - 1

\* The functions returned by subscribe that callers hold: the event and the
\* listener each closes over, whether it has been invoked, and whether its
\* listener was subscribed to its event again since it was last invoked.
ReturnedFn(event, listener) ==
    [event |-> event, listener |-> listener, called |-> FALSE, resub |-> FALSE]

Resubscribed(F, event, listener) ==
    {IF f.event = event /\ f.listener = listener /\ f.called
     THEN [f EXCEPT !.resub = TRUE] ELSE f : f \in F}

----------------------------------------------------------------------------
(* The user service: let users: User[] *)

\* The names and e-mail addresses the store starts with and callers pass.
Names == {"Alice", "Bob"}

Emails == {"alice@example.com", "bob@example.com"}

\* The initial contents of users (lines 8-23).
InitialUsers ==
    <<[id |-> "1", name |-> "Alice", email |-> "alice@example.com"],
      [id |-> "2", name |-> "Bob", email |-> "bob@example.com"]>>

\* Users the store holds at most.
MaxUsers == 3

\* A field an UpdateUserDTO leaves out.
Undefined == "undefined"

Digit(d) ==
    CASE d = 0 -> "0" [] d = 1 -> "1" [] d = 2 -> "2" [] d = 3 -> "3" [] d = 4 -> "4"
      [] d = 5 -> "5" [] d = 6 -> "6" [] d = 7 -> "7" [] d = 8 -> "8" [] d = 9 -> "9"

\* String(n) of a non-negative integer: its decimal digits.
RECURSIVE String(_)
String(n) == IF n < 10 THEN Digit(n) ELSE String(n \div 10) \o Digit(n % 10)

\* The ids callers ask for: those create can have handed out.
Ids == {String(n) : n \in 1..(MaxUsers + 1)}

\* users.findIndex((user) => user.id === id), counted from 1; 0 for -1.
FindIndex(us, id) ==
    IF \E i \in 1..Len(us) : us[i].id = id
    THEN CHOOSE i \in 1..Len(us) : us[i].id = id /\ \A j \in 1..(i - 1) : us[j].id # id
    ELSE 0

\* users.splice(index, 1).
Splice(us, index) == SubSeq(us, 1, index - 1) \o SubSeq(us, index + 1, Len(us))

\* a ?? b.
Coalesce(a, b) == IF a = Undefined THEN b ELSE a

\* UserService.create: the id is String(users.length + 1).
Created(us, name, email) ==
    Append(us, [id |-> String(Len(us) + 1), name |-> name, email |-> email])

\* UserService.update: null without a match, else the user at the index is
\* replaced by one with the same id.
Updated(us, id, name, email) ==
    IF FindIndex(us, id) = 0 THEN us
    ELSE [us EXCEPT ![FindIndex(us, id)] =
             [id |-> @.id, name |-> Coalesce(name, @.name),
              email |-> Coalesce(email, @.email)]]

\* UserService.delete: false without a match, else the user at the index is
\* spliced out.
Deleted(us, id) ==
    IF FindIndex(us, id) = 0 THEN us ELSE Splice(us, FindIndex(us, id))

----------------------------------------------------------------------------
(* Operations *)

Init ==
    /\ channels = MapClear(<<>>)
    /\ stack = <<>>
    /\ fns = {}
    /\ opsLeft = 0
    /\ last = [op |-> "new"]
    /\ seen = [of |-> "nothing", policies |-> {}]
    /\ other = MapClear(<<>>)
    /\ users = InitialUsers

\* subscribe(event, listener); keep: the caller holds on to the returned function.
subscribe(event, listener, keep) ==
    /\ CanCall
    /\ keep => <<event, listener>> \in Kept /\ Cardinality(fns) < MaxFns
    /\ channels' = Subscribed(channels, event, listener)
    /\ stack' = [i \in 1..Len(stack) |->
                    Noted(stack[i], "subscribe", event, {}, {listener})]
    /\ fns' = Resubscribed(fns, event, listener)
                \cup (IF keep THEN {ReturnedFn(event, listener)} ELSE {})
    /\ opsLeft' = Spent
    /\ last' = [op |-> "subscribe", event |-> event, listener |-> listener,
                before |-> channels]
    /\ seen' = seen
    /\ UNCHANGED <<other, users>>

\* The effect of unsubscribe(event, listener) on the registry and on the
\* publish() calls that iterate the Set it deletes from.
DoUnsubscribe(event, listener) ==
    /\ channels' = Unsubscribed(channels, event, listener)
    /\ stack' = [i \in 1..Len(stack) |->
                    Noted(FrameDeleted(channels, stack[i], event, listener),
                          "unsubscribe", event,
                          Subscribers(channels, event) \cap {listener}, {})]
    /\ opsLeft' = Spent

unsubscribe(event, listener) ==
    /\ CanCall
    /\ DoUnsubscribe(event, listener)
    /\ fns' = fns
    /\ last' = [op |-> "unsubscribe", event |-> event, listener |-> listener,
                found |-> listener \in Subscribers(channels, event)]
    /\ seen' = seen
    /\ UNCHANGED <<other, users>>

\* Calling a function that subscribe returned: () => this.unsubscribe(event, listener).
unsubscribeFn(f) ==
    /\ CanCall
    /\ DoUnsubscribe(f.event, f.listener)
    /\ fns' = (fns \ {f}) \cup {[f EXCEPT !.called = TRUE, !.resub = FALSE]}
    /\ last' = [op |-> "unsubscribeFn", event |-> f.event, listener |-> f.listener,
                found |-> f.listener \in Subscribers(channels, f.event),
                again |-> f.called, resub |-> f.resub]
    /\ seen' = seen
    /\ UNCHANGED <<other, users>>

\* clear(event) with an event.
clear(event) ==
    /\ CanCall
    /\ channels' = Cleared(channels, event)
    /\ stack' = [i \in 1..Len(stack) |->
                    Noted(FrameDetached(channels, stack[i], event),
                          "clear", event, Subscribers(channels, event), {})]
    /\ opsLeft' = Spent
    /\ fns' = fns
    /\ last' = [op |-> "clear", event |-> event, had |-> Subscribers(channels, event)]
    /\ seen' = seen
    /\ UNCHANGED <<other, users>>

\* clear() without an argument.
clearAll ==
    /\ CanCall
    /\ channels' = ClearedAll(channels)
    /\ stack' = [i \in 1..Len(stack) |->
                    Noted(FrameDetached(channels, stack[i], stack[i].event),
                          "clear", stack[i].event,
                          Subscribers(channels, stack[i].event), {})]
    /\ opsLeft' = Spent
    /\ fns' = fns
    /\ last' = [op |-> "clearAll", had |-> DOMAIN channels]
    /\ seen' = seen
    /\ UNCHANGED <<other, users>>

\* What a publish() call that ended leaves to observe.
Ended(f, result) ==
    [op |-> "publish", result |-> result, event |-> f.event, payload |-> f.payload,
     calls |-> f.calls, snapshot |-> f.snapshot, ops |-> f.ops, subd |-> f.subd,
     early |-> f.early]

\* A publish that starts like subscribe does, with channels.get(event) ?? new
\* Set followed by channels.set: a channel without entry gets an empty one.
PublishedCreates(ch, event, payload) ==
    IF HasEntry(ch, event) THEN ch ELSE MapSet(ch, event, <<>>)

\* A publish that keeps the payload for later subscribers, in the Set of its
\* channel.
PublishedRetains(ch, event, payload) ==
    IF HasEntry(ch, event) THEN MapSet(ch, event, Append(ch[event], payload)) ELSE ch

\* publish, lines 57-66: no statement of it writes to channels or to a Set.
Published(ch, event, payload) == ch

\* A loop that stops one entry early.
HasNextShort(ch, f) == f.pos + 1 < Len(Iterated(ch, f))

\* A loop that ends after its first call (a return inside the loop body).
HasNextFirstOnly(ch, f) == f.pos < 1 /\ f.pos < Len(Iterated(ch, f))

\* The for-of loop of frame f has another entry.
HasNext(ch, f) == f.pos < Len(Iterated(ch, f))

\* The listener the for-of loop of frame f calls next.
NextListener(ch, f) == Iterated(ch, f)[f.pos + 1]

\* The payload publish hands to a listener (line 64).
Passed(f) == f.payload

\* for-of, lines 63-64: the loop takes the next entry of the Set and calls it
\* with the payload.
Called(ch, f) ==
    [f EXCEPT !.pos = @ + 1,
              !.running = NextListener(ch, f),
              !.calls = IF Unbounded THEN @
                        ELSE Append(@, <<NextListener(ch, f), Passed(f)>>)]

\* How a publish() call that returned treated the listeners of its snapshot
\* that were removed before their turn.
RemovalPolicies(f) ==
    {"still invoked" : l \in f.early \cap Invoked(f)}
    \cup {"skipped" : l \in f.early \ Invoked(f)}

\* How a publish() call that returned treated the listeners that were added
\* to its event during the call and are still subscribed.
AdditionPolicies(ch, f) ==
    {"invoked" : l \in ((f.subd \ f.snapshot) \cap Subscribers(ch, f.event)) \cap Invoked(f)}
    \cup {"not invoked" :
            l \in ((f.subd \ f.snapshot) \cap Subscribers(ch, f.event)) \ Invoked(f)}

Observed(ch, f) ==
    [seen EXCEPT !.policies =
        @ \cup (IF seen.of = "removals" THEN RemovalPolicies(f)
                ELSE IF seen.of = "additions" THEN AdditionPolicies(ch, f)
                ELSE {})]

\* The for-of loop of the innermost publish() call, whose frame is f: it calls
\* the next entry of the Set, or it is past the last entry and publish()
\* returns.  below is the rest of the call stack.
Loop(below, f) ==
    IF HasNext(channels, f)
    THEN /\ stack' = Append(below, Called(channels, f))
         /\ last' = [op |-> "invoke", event |-> f.event,
                     listener |-> NextListener(channels, f)]
         /\ seen' = seen
    ELSE /\ stack' = below
         /\ last' = Ended(f, "returned")
         /\ seen' = Observed(channels, f)

\* publish(event, payload), lines 59-64: without an entry it returns at once,
\* else the for-of loop over the Set starts.
publish(event, payload) ==
    /\ CanCall
    /\ Len(stack) < MaxDepth
    /\ fns' = fns
    /\ channels' = Published(channels, event, payload)
    /\ IF HasEntry(channels, event)
       THEN Loop([i \in 1..Len(stack) |-> Noted(stack[i], "publish", event, {}, {})],
                 NewFrame(channels, event, payload))
       ELSE /\ stack' = [i \in 1..Len(stack) |->
                            Noted(stack[i], "publish", event, {}, {})]
            /\ last' = Ended(NewFrame(channels, event, payload), "returned")
            /\ seen' = seen
    /\ opsLeft' = IF Len(stack) > 0 THEN opsLeft - 1
                  ELSE IF Len(stack') > 0 THEN MaxOps ELSE 0
    /\ UNCHANGED <<other, users>>

\* The body of the running listener returns and the loop goes on.
ListenerReturn ==
    /\ Len(stack) > 0
    /\ Top.running # NoListener
    /\ Loop(SubSeq(stack, 1, Len(stack) - 1), [Top EXCEPT !.running = NoListener])
    /\ opsLeft' = IF Len(stack') = 0 THEN 0 ELSE opsLeft
    /\ UNCHANGED <<channels, fns, other, users>>

\* The events of the publish() calls by outside code that ended with an
\* exception (recorded when seen.of = "throws").
Thrown(f) ==
    IF seen.of = "throws" /\ Len(stack) = 1
    THEN [seen EXCEPT !.policies = @ \cup {f.event}]
    ELSE seen

\* The body of the running listener throws: publish has no try/catch, the
\* exception leaves the for-of loop and publish().  A caller that is itself a
\* listener may catch it (it goes on) or not (it throws in turn).
ListenerThrow ==
    /\ Len(stack) > 0
    /\ Top.running # NoListener
    /\ stack' = SubSeq(stack, 1, Len(stack) - 1)
    /\ last' = Ended(Top, "raised")
    /\ seen' = Thrown(Top)
    /\ opsLeft' = IF Len(stack) = 1 THEN 0 ELSE opsLeft
    /\ UNCHANGED <<channels, fns, other, users>>

Next ==
    \/ \E event \in Events, listener \in Listeners, keep \in BOOLEAN :
           subscribe(event, listener, keep)
    \/ \E event \in Events, listener \in Listeners : unsubscribe(event, listener)
    \/ \E f \in fns : unsubscribeFn(f)
    \/ \E event \in Events : clear(event)
    \/ clearAll
    \/ \E event \in Events : \E payload \in Payloads(event) : publish(event, payload)
    \/ ListenerReturn
    \/ ListenerThrow

Spec == Init /\ [][Next]_vars

\* The same program, with the treatment of the listeners removed during a
\* dispatch recorded over the whole run.
InitRemovals ==
    /\ channels = MapClear(<<>>)
    /\ stack = <<>>
    /\ fns = {}
    /\ opsLeft = 0
    /\ last = [op |-> "new"]
    /\ seen = [of |-> "removals", policies |-> {}]
    /\ other = MapClear(<<>>)
    /\ users = InitialUsers

SpecRemovals == InitRemovals /\ [][Next]_vars

\* The same program, with the treatment of the listeners added during a
\* dispatch recorded over the whole run.
InitAdditions ==
    /\ channels = MapClear(<<>>)
    /\ stack = <<>>
    /\ fns = {}
    /\ opsLeft = 0
    /\ last = [op |-> "new"]
    /\ seen = [of |-> "additions", policies |-> {}]
    /\ other = MapClear(<<>>)
    /\ users = InitialUsers

SpecAdditions == InitAdditions /\ [][Next]_vars

\* The same program, with the events on which a publish() called by outside
\* code raised recorded over the whole run.
InitThrows ==
    /\ channels = MapClear(<<>>)
    /\ stack = <<>>
    /\ fns = {}
    /\ opsLeft = 0
    /\ last = [op |-> "new"]
    /\ seen = [of |-> "throws", policies |-> {}]
    /\ other = MapClear(<<>>)
    /\ users = InitialUsers

SpecThrows == InitThrows /\ [][Next]_vars

\* The same program with listener bodies that call subscribe, unsubscribe and
\* clear as often as they like, never publish, and return.
InitTermination ==
    /\ channels = MapClear(<<>>)
    /\ stack = <<>>
    /\ fns = {}
    /\ opsLeft = 0
    /\ last = [op |-> "new"]
    /\ seen = [of |-> "termination", policies |-> {}]
    /\ other = MapClear(<<>>)
    /\ users = InitialUsers

NextTermination ==
    \/ \E event \in Events, listener \in Listeners, keep \in BOOLEAN :
           subscribe(event, listener, keep)
    \/ \E event \in Events, listener \in Listeners : unsubscribe(event, listener)
    \/ \E f \in fns : unsubscribeFn(f)
    \/ \E event \in Events : clear(event)
    \/ clearAll
    \/ \E event \in Events : \E payload \in Payloads(event) :
           Len(stack) = 0 /\ publish(event, payload)
    \/ ListenerReturn

\* Every listener invocation returns: the body that is running does not go on
\* for ever.
SpecTermination ==
    InitTermination /\ [][NextTermination]_vars /\ WF_vars(ListenerReturn)

----------------------------------------------------------------------------
(* Two instances: const bus = new PubSub(), const second = new PubSub() *)

\* A registry kept in a static field: every instance works on the same Map.
ThisChannelsStatic(own, foreign) == foreign

\* this.channels (line 15: an instance field, initialised per instance): the
\* registry an operation works on is that of the instance it is called on,
\* whatever other instances (foreign) hold.
ThisChannels(own, foreign) == own

\* The invocations of a publish whose listeners call no bus operation and
\* return: the for-of loop over the Set of event, in order.
Dispatched(ch, event, payload) ==
    IF HasEntry(ch, event)
    THEN [i \in 1..Len(ch[event]) |-> <<ch[event][i], payload>>]
    ELSE <<>>

\* Calls made by code outside any listener body.
Outside == Len(stack) = 0

\* The operations of the second instance, called by outside code.
subscribeOther(event, listener) ==
    /\ Outside
    /\ other' = Subscribed(ThisChannels(other, channels), event, listener)
    /\ last' = [op |-> "other.subscribe", event |-> event, listener |-> listener]
    /\ UNCHANGED <<channels, stack, fns, opsLeft, seen, users>>

unsubscribeOther(event, listener) ==
    /\ Outside
    /\ other' = Unsubscribed(ThisChannels(other, channels), event, listener)
    /\ last' = [op |-> "other.unsubscribe", event |-> event, listener |-> listener]
    /\ UNCHANGED <<channels, stack, fns, opsLeft, seen, users>>

clearOther(event) ==
    /\ Outside
    /\ other' = Cleared(ThisChannels(other, channels), event)
    /\ last' = [op |-> "other.clear", event |-> event]
    /\ UNCHANGED <<channels, stack, fns, opsLeft, seen, users>>

clearAllOther ==
    /\ Outside
    /\ other' = ClearedAll(ThisChannels(other, channels))
    /\ last' = [op |-> "other.clearAll"]
    /\ UNCHANGED <<channels, stack, fns, opsLeft, seen, users>>

publishOther(event, payload) ==
    /\ Outside
    /\ other' = Published(ThisChannels(other, channels), event, payload)
    /\ last' = [op |-> "other.publish", event |-> event, payload |-> payload,
                calls |-> Dispatched(ThisChannels(other, channels), event, payload)]
    /\ UNCHANGED <<channels, stack, fns, opsLeft, seen, users>>

\* Outside code works with both instances; the listeners of the first
\* instance are called by its publish and return or throw.
NextInstances ==
    \/ \E event \in Events, listener \in Listeners, keep \in BOOLEAN :
           Outside /\ subscribe(event, listener, keep)
    \/ \E event \in Events, listener \in Listeners : Outside /\ unsubscribe(event, listener)
    \/ \E f \in fns : Outside /\ unsubscribeFn(f)
    \/ \E event \in Events : Outside /\ clear(event)
    \/ Outside /\ clearAll
    \/ \E event \in Events : \E payload \in Payloads(event) :
           Outside /\ publish(event, payload)
    \/ ListenerReturn
    \/ ListenerThrow
    \/ \E event \in Events, listener \in Listeners : subscribeOther(event, listener)
    \/ \E event \in Events, listener \in Listeners : unsubscribeOther(event, listener)
    \/ \E event \in Events : clearOther(event)
    \/ clearAllOther
    \/ \E event \in Events : \E payload \in Payloads(event) : publishOther(event, payload)

SpecInstances == Init /\ [][NextInstances]_vars

----------------------------------------------------------------------------
(* The user service on its own: the bus is left alone *)

create(name, email) ==
    /\ Len(users) < MaxUsers
    /\ users' = Created(users, name, email)
    /\ UNCHANGED <<channels, stack, fns, opsLeft, last, seen, other>>

update(id, name, email) ==
    /\ users' = Updated(users, id, name, email)
    /\ UNCHANGED <<channels, stack, fns, opsLeft, last, seen, other>>

delete(id) ==
    /\ users' = Deleted(users, id)
    /\ UNCHANGED <<channels, stack, fns, opsLeft, last, seen, other>>

NextUsers ==
    \/ \E name \in Names, email \in Emails : create(name, email)
    \/ \E id \in Ids, name \in Names \cup {Undefined}, email \in Emails \cup {Undefined} :
           update(id, name, email)
    \/ \E id \in Ids : delete(id)

SpecUsers == Init /\ [][NextUsers]_vars

----------------------------------------------------------------------------
(* Properties *)

\* The publish() calls to look at: those in progress and the one that just ended.
InProgress == {stack[i] : i \in 1..Len(stack)}

Publishes == InProgress \cup (IF last.op = "publish" THEN {last} ELSE {})

JustReturned == last.op = "publish" /\ last.result = "returned"

\* C1: a publish(c, p) during which no listener calls a bus operation or
\* throws invokes every listener subscribed to c exactly once, each with the
\* payload p, and invokes nobody else.
C1_EachSubscriberOnce ==
    (JustReturned /\ last.ops = {}) =>
        /\ \A l \in Listeners : Times(last, l) = (IF l \in last.snapshot THEN 1 ELSE 0)
        /\ \A i \in 1..Len(last.calls) : last.calls[i][2] = last.payload

C1_Witness ==
    /\ JustReturned /\ last.ops = {}
    /\ last.snapshot = {"l1", "l2"}
    /\ last.payload = "Nobody hears this"
    /\ Len(last.calls) = 2

\* C2: after unsubscribe(c, l), or a call of a function subscribe(c, l)
\* returned, l is no longer subscribed to c and every other subscription is
\* as before; only subscribe(c, l) subscribes l to c; and a publish(c, p)
\* invokes only listeners that were subscribed to c when it began or were
\* subscribed to c since.
C2_Unsubscribed ==
    [][/\ \A f \in Publishes' : Invoked(f) \subseteq f.snapshot \cup f.subd
       /\ last'.op \in {"unsubscribe", "unsubscribeFn"} =>
             \A e \in Events : Subscribers(channels', e) =
                 Subscribers(channels, e)
                     \ (IF e = last'.event THEN {last'.listener} ELSE {})
       /\ \A e \in Events : \A l \in Subscribers(channels', e) \ Subscribers(channels, e) :
             last'.op = "subscribe" /\ last'.event = e /\ last'.listener = l]_vars

\* The kept function was called, its listener l1 was not subscribed again, and
\* a publish on the event then invoked the other listener and not l1.
C2_Witness ==
    /\ JustReturned /\ last.ops = {} /\ last.event = "message"
    /\ \E f \in fns : f.called /\ ~f.resub /\ f.listener = "l1" /\ f.event = "message"
    /\ Invoked(last) = {"l2"}

\* C3: a listener subscribed to c by a listener body during publish(c, v) is
\* not invoked by that publish call.
C3_AddedNotInvoked ==
    \A f \in Publishes : \A l \in f.subd \ f.snapshot : l \notin Invoked(f)

\* C4: when a listener throws during publish(c, p), the other listeners
\* subscribed to c are still invoked by that call.
C4_ThrowIsolated ==
    (last.op = "publish" /\ last.result = "raised" /\ last.ops = {}) =>
        last.snapshot \subseteq Invoked(last)

\* C5: publish returns normally to its caller, also when a listener throws.
C5_PublishNeverRaises == last.op = "publish" => last.result = "returned"

\* C6 as stated: a second or later call of a function returned by subscribe
\* leaves the registry as it is.
C6_SecondCallNoEffect ==
    [][(last'.op = "unsubscribeFn" /\ last'.again) => channels' = channels]_vars

\* C6 as amended: a second or later call of a function returned by
\* subscribe(c, l) leaves the registry as it is, unless subscribe(c, l) was
\* called again since that function was last called.
C6_SecondCallNoEffectUnlessResubscribed ==
    [][(last'.op = "unsubscribeFn" /\ last'.again /\ ~last'.resub)
            => channels' = channels]_vars

\* The kept function was called again, with no subscribe of its listener in
\* between, while the other listener is subscribed to its event.
C6_Witness ==
    /\ last.op = "unsubscribeFn" /\ last.again /\ ~last.resub
    /\ Subscribers(channels, last.event) = Listeners \ {last.listener}

\* C7: in one publish call whose listeners call subscribe, unsubscribe and
\* clear but not publish, no listener is invoked more than once.
C7_NoListenerTwice ==
    \A f \in Publishes : "publish" \notin f.ops =>
        \A l \in Listeners : Times(f, l) <= 1

\* C8: when the listeners of a publish(c, p) only unsubscribe (themselves or
\* others), the loop stays inside its Set, every listener of c that was
\* subscribed when the call began and was not removed is invoked exactly
\* once, and no listener is invoked twice.
C8_UnsubscribeDuringDispatch ==
    /\ \A f \in InProgress : f.pos <= Len(Iterated(channels, f))
    /\ (JustReturned /\ last.ops \subseteq {"unsubscribe"}) =>
          /\ \A l \in last.snapshot \cap Subscribers(channels, last.event) :
                Times(last, l) = 1
          /\ \A l \in Listeners : Times(last, l) <= 1

\* l1 unsubscribed (itself) during the call and l2, which stayed, was invoked.
C8_Witness ==
    /\ JustReturned /\ last.ops = {"unsubscribe"}
    /\ last.snapshot = {"l1", "l2"}
    /\ Subscribers(channels, last.event) = {"l2"}
    /\ Times(last, "l1") = 1 /\ Times(last, "l2") = 1

\* C9: the listeners removed before their turn are treated one way: all the
\* publish calls skip them, or all still invoke them.
C9_OneRemovalPolicy == Cardinality(seen.policies \cap {"skipped", "still invoked"}) <= 1

\* C10: the listeners added during a dispatch are treated one way: all the
\* publish calls invoke them in the same call, or none does.
C10_OneAdditionPolicy == Cardinality(seen.policies \cap {"invoked", "not invoked"}) <= 1

\* C11: subscribing a listener that is already subscribed to the channel leaves
\* the registry as it was; no Set of the registry ever holds a reference
\* twice; and a publish during which listeners did nothing but subscribe
\* listeners that were already subscribed invokes each subscriber exactly once.
C11_SubscribeIdempotent ==
    [][/\ (last'.op = "subscribe" /\ last'.listener \in Subscribers(channels, last'.event))
              => channels' = channels
       /\ \A e \in DOMAIN channels' : Cardinality(Range(channels'[e])) = Len(channels'[e])
       /\ (/\ JustReturned'
           /\ last'.ops \subseteq {"subscribe"}
           /\ last'.subd \subseteq last'.snapshot)
              => \A l \in Listeners :
                     Times(last', l) = (IF l \in last'.snapshot THEN 1 ELSE 0)]_vars

C11_Witness ==
    /\ JustReturned
    /\ last.ops = {"subscribe"}
    /\ last.subd = {"l1", "l2"}
    /\ last.snapshot = {"l1", "l2"}
    /\ Len(last.calls) = 2

\* C12: every channel that has an entry in the registry has at least one
\* listener; an entry appears only by a subscribe to its channel; and the
\* unsubscribe that removes the last listener of a channel removes its entry.
C12_NoEmptyChannel ==
    [][/\ \A e \in DOMAIN channels' : Len(channels'[e]) > 0
       /\ \A e \in DOMAIN channels' \ DOMAIN channels :
              last'.op = "subscribe" /\ last'.event = e
       /\ (/\ last'.op \in {"unsubscribe", "unsubscribeFn"}
           /\ Subscribers(channels, last'.event) \subseteq {last'.listener})
              => ~HasEntry(channels', last'.event)]_vars

C12_Witness ==
    /\ last.op = "unsubscribe"
    /\ last.found
    /\ ~HasEntry(channels, last.event)
    /\ \E e \in Events : Subscribers(channels, e) = {"l1", "l2"}

\* C13: clear(c) removes the entry of channel c and nothing else: every other
\* channel keeps its Set, with the same listeners in the same order, and the
\* publish calls in progress on other channels go on over the same listeners
\* from the same position.
C13_ClearOneChannel ==
    [][last'.op = "clear" =>
          /\ ~HasEntry(channels', last'.event)
          /\ Subscribers(channels, last'.event) = last'.had
          /\ \A e \in Events \ {last'.event} :
                /\ HasEntry(channels', e) = HasEntry(channels, e)
                /\ HasEntry(channels, e) => channels'[e] = channels[e]
          /\ Len(stack') = Len(stack)
          /\ \A i \in 1..Len(stack) :
                stack[i].event # last'.event =>
                    /\ Iterated(channels', stack'[i]) = Iterated(channels, stack[i])
                    /\ stack'[i].pos = stack[i].pos
                    /\ stack'[i].calls = stack[i].calls]_vars

\* clear('message') took two listeners away while a publish on 'count' is in
\* progress.
C13_Witness ==
    /\ last.op = "clear"
    /\ last.event = "message"
    /\ last.had = {"l1", "l2"}
    /\ Len(stack) = 1
    /\ Top.event = "count"
    /\ Top.attached
    /\ Subscribers(channels, "count") = {"l1", "l2"}

\* C14: clear() leaves the registry without any entry, and a publish that is
\* called while the registry is empty returns at once: it starts no dispatch
\* and invokes no listener, whatever the channel.
C14_ClearAll ==
    [][/\ last'.op = "clearAll" => channels' = MapClear(channels)
       /\ DOMAIN channels = {} =>
             /\ Len(stack') <= Len(stack)
             /\ (last'.op = "publish" /\ Len(stack') = Len(stack)) =>
                   /\ last'.result = "returned"
                   /\ last'.calls = <<>>
                   /\ channels' = channels]_vars

\* clear() on a registry that held both channels.
C14_Witness ==
    /\ last.op = "clearAll"
    /\ last.had = Events
    /\ DOMAIN channels = {}
    /\ Len(stack) = 0

\* C15: unsubscribe(c, l), directly or through a function subscribe returned,
\* when c has no entry or l is not subscribed to c, completes (no outcome of
\* it is an error) and changes nothing: the registry is the same, and the
\* publish calls in progress go on over the same listeners from the same
\* position.
C15_UnsubscribeAbsent ==
    [][(/\ last'.op \in {"unsubscribe", "unsubscribeFn"}
        /\ last'.listener \notin Subscribers(channels, last'.event))
          => /\ ~last'.found
             /\ channels' = channels
             /\ Len(stack') = Len(stack)
             /\ \A i \in 1..Len(stack) :
                   /\ stack'[i].attached = stack[i].attached
                   /\ Iterated(channels', stack'[i]) = Iterated(channels, stack[i])
                   /\ stack'[i].pos = stack[i].pos
                   /\ stack'[i].running = stack[i].running]_vars

\* unsubscribe of a listener that is not in the Set of its channel, which
\* holds the other listener.
C15_Witness ==
    /\ last.op = "unsubscribe"
    /\ ~last.found
    /\ Subscribers(channels, last.event) = Listeners \ {last.listener}

\* C16: publish(c, p) on a channel without subscribers returns normally at
\* once: it starts no dispatch, invokes no listener, leaves the registry as
\* it was and creates no entry for c.
C16_PublishNoSubscribers ==
    [][/\ Len(stack') > Len(stack) =>
             Subscribers(channels, stack'[Len(stack')].event) # {}
       /\ (last'.op = "publish" /\ Len(stack') = Len(stack)) =>
             /\ Subscribers(channels, last'.event) = {}
             /\ last'.result = "returned"
             /\ last'.calls = <<>>
             /\ channels' = channels
             /\ ~HasEntry(channels', last'.event)]_vars

\* The end of the usage script: stopMessageListener() took the only listener
\* of 'message' away, then publish('message', 'Nobody hears this').
C16_Witness ==
    /\ JustReturned
    /\ last.event = "message"
    /\ last.payload = "Nobody hears this"
    /\ last.calls = <<>>
    /\ Len(stack) = 0
    /\ \E f \in fns : f.called /\ ~f.resub
    /\ ~HasEntry(channels, "message")
    /\ HasEntry(channels, "count")

\* C17: channels are independent.  subscribe(c, l) and unsubscribe(c, l)
\* leave the entry of every other channel as it was, also when l is
\* subscribed there; and each listener a publish on c invokes comes from the
\* Set of c: it was subscribed to c when the call began or was subscribed to
\* c during the call, and it is subscribed to c at the moment it is invoked
\* as long as the Set the call iterates is the one the registry holds for c.
C17_ChannelsIndependent ==
    [][/\ last'.op \in {"subscribe", "unsubscribe", "unsubscribeFn"} =>
             \A e \in Events \ {last'.event} :
                 /\ HasEntry(channels', e) = HasEntry(channels, e)
                 /\ HasEntry(channels, e) => channels'[e] = channels[e]
       /\ last'.op = "invoke" =>
             /\ last'.event = stack'[Len(stack')].event
             /\ last'.listener \in
                    stack'[Len(stack')].snapshot \cup stack'[Len(stack')].subd
             /\ stack'[Len(stack')].attached =>
                    last'.listener \in Subscribers(channels', last'.event)]_vars

\* l1 is subscribed to both channels and unsubscribe('count', l1) took it out
\* of 'count' only.
C17_Witness ==
    /\ last.op = "unsubscribe"
    /\ last.event = "count"
    /\ last.listener = "l1"
    /\ last.found
    /\ Subscribers(channels, "count") = {"l2"}
    /\ Subscribers(channels, "message") = {"l1"}

\* C18: publish does not modify the bus.  The steps of a publish call (the
\* call itself, each invocation of a listener by its loop, its return or its
\* raise) leave the registry and the returned functions as they were, so a
\* publish during which no listener called a bus operation ends with the
\* subscribers of its channel it began with; and the registry holds listeners
\* only, never a payload.
C18_PublishKeepsState ==
    [][/\ last'.op \in {"invoke", "publish"} => channels' = channels /\ fns' = fns
       /\ (last'.op = "publish" /\ last'.ops = {}) =>
             Subscribers(channels', last'.event) = last'.snapshot
       /\ \A e \in DOMAIN channels' : Range(channels'[e]) \subseteq Listeners]_vars

\* publish('count', 42) invoked both listeners of 'count' and returned.
C18_Witness ==
    /\ JustReturned
    /\ last.ops = {}
    /\ last.event = "count"
    /\ Len(stack) = 0
    /\ Len(last.calls) = 2
    /\ last.snapshot = {"l1", "l2"}
    /\ Subscribers(channels, "count") = {"l1", "l2"}

\* C19: dispatch is synchronous.  A listener is invoked only by the loop of a
\* publish call that is in progress, and runs inside that call; publish
\* returns only when its loop has passed every entry of its Set, with all the
\* invocations it made; and while no publish call is in progress the only
\* step that invokes a listener is a new call of publish.
C19_SynchronousDispatch ==
    [][/\ (last'.op = "publish" /\ last'.result = "returned" /\ Len(stack') < Len(stack)) =>
             /\ Top.pos >= Len(Iterated(channels, Top))
             /\ last'.calls = Top.calls
       /\ last'.op = "invoke" =>
             /\ Len(stack') > 0
             /\ Len(stack') >= Len(stack)
             /\ stack'[Len(stack')].running = last'.listener
             /\ stack'[Len(stack')].calls[Len(stack'[Len(stack')].calls)]
                    = <<last'.listener, stack'[Len(stack')].payload>>
       /\ (last'.op = "invoke" /\ Len(stack) = 0) =>
             /\ Len(stack') = 1
             /\ stack'[1].pos = 1
             /\ Len(stack'[1].calls) = 1
       /\ Len(stack') = 0 => last'.op # "invoke"]_vars

\* publish('message', 'Hello subscribers!') returned to outside code after
\* its two invocations.
C19_Witness ==
    /\ JustReturned
    /\ Len(stack) = 0
    /\ last.event = "message"
    /\ last.payload = "Hello subscribers!"
    /\ last.calls = <<<<"l1", "Hello subscribers!">>, <<"l2", "Hello subscribers!">>>>

\* C20: clear(c) and clear() leave the bus usable.  The channels they clear
\* have no entry afterwards; a channel without entry stays so until a
\* subscribe to it, and no publish on it starts a dispatch; the subscribe(c, l)
\* that comes then makes a Set that holds l and nothing else; and a publish
\* on a channel whose only subscriber is l, during which no listener calls a
\* bus operation, invokes l exactly once, with the payload.
C20_UsableAfterClear ==
    [][/\ last'.op = "clear" => ~HasEntry(channels', last'.event)
       /\ last'.op = "clearAll" => DOMAIN channels' = {}
       /\ \A e \in Events \ DOMAIN channels :
             /\ HasEntry(channels', e) => last'.op = "subscribe" /\ last'.event = e
             /\ Len(stack') > Len(stack) => stack'[Len(stack')].event # e
       /\ (last'.op = "subscribe" /\ ~HasEntry(channels, last'.event)) =>
             /\ HasEntry(channels', last'.event)
             /\ channels'[last'.event] = <<last'.listener>>
       /\ \A l \in Listeners :
             (JustReturned' /\ last'.ops = {} /\ last'.snapshot = {l}) =>
                 last'.calls = <<<<l, last'.payload>>>>]_vars

\* During a publish on a channel a listener called clear on it (the Set the
\* call iterates left the registry with its listeners) and then subscribe:
\* the channel has a new Set that holds the listener just subscribed.
C20_Witness ==
    /\ Len(stack) = 1
    /\ Top.ops = {"clear", "subscribe"}
    /\ ~Top.attached
    /\ Len(Top.listeners) = 2
    /\ last.op = "subscribe"
    /\ last.event = Top.event
    /\ channels[Top.event] = <<last.listener>>

\* C21: subscribe(c, l) of a listener that was not subscribed to c, followed
\* at once by unsubscribe(c, l) or by a call of a function subscribe returned
\* for (c, l), finds l and leaves the registry exactly as it was before the
\* subscribe: the same entries (none for c if c had none) with the same
\* listeners in the same order.
C21_SubscribeUnsubscribe ==
    [][(/\ last.op = "subscribe"
        /\ last.listener \notin Subscribers(last.before, last.event)
        /\ last'.op \in {"unsubscribe", "unsubscribeFn"}
        /\ last'.event = last.event
        /\ last'.listener = last.listener)
          => /\ last'.found
             /\ channels' = last.before]_vars

\* The body of the first listener of a publish subscribed a listener that
\* was not subscribed to the channel and unsubscribed it at once: the channel
\* has the subscribers it had when the publish began.
C21_Witness ==
    /\ Len(stack) = 1
    /\ Top.ops = {"subscribe", "unsubscribe"}
    /\ opsLeft = 0
    /\ Len(Top.calls) = 1
    /\ last.op = "unsubscribe"
    /\ last.found
    /\ last.event = Top.event
    /\ last.listener \in Top.subd \ Top.snapshot
    /\ Subscribers(channels, Top.event) = Top.snapshot

\* The operations of the second instance.
OtherOps ==
    {"other.subscribe", "other.unsubscribe", "other.clear", "other.clearAll",
     "other.publish"}

\* C22: each instance owns its registry.  An operation on the second
\* instance leaves the registry and the dispatches of the first as they
\* were, an operation on the first leaves the registry of the second as it
\* was, and a publish on an instance invokes listeners of that instance's
\* registry only: never one that is subscribed to the channel on the other
\* instance alone.
C22_InstancesIsolated ==
    [][/\ last'.op \in OtherOps => channels' = channels /\ stack' = stack /\ fns' = fns
       /\ last'.op \notin OtherOps => other' = other
       /\ last'.op = "other.publish" =>
             /\ {last'.calls[i][1] : i \in 1..Len(last'.calls)}
                    = Subscribers(other, last'.event)
             /\ Len(last'.calls) = Cardinality(Subscribers(other, last'.event))
       /\ last'.op = "invoke" =>
             last'.listener \in Subscribers(channels, last'.event)]_vars

\* l1 is subscribed to 'message' on the first instance only and l2 on the
\* second only; the publish on the second instance invoked l2 alone.
C22_Witness ==
    /\ last.op = "other.publish"
    /\ last.event = "message"
    /\ Subscribers(channels, "message") = {"l1"}
    /\ Subscribers(other, "message") = {"l2"}
    /\ last.calls = <<<<"l2", last.payload>>>>

\* C23: every publish call terminates when each listener invocation returns
\* and no listener calls publish, whatever subscribe, unsubscribe and clear
\* calls the listeners make: a publish in progress leads to no publish in
\* progress.
C23_PublishTerminates == (Len(stack) > 0) ~> (Len(stack) = 0)

\* C24: in a publish on c during which no listener called clear, a listener
\* that was subscribed to c when the call began, was taken out of c by an
\* unsubscribe in another listener's body before its turn and was not
\* subscribed to c again, is not invoked by that call.
C24_RemovedBeforeTurnSkipped ==
    \A f \in Publishes : "clear" \notin f.ops => f.early \cap Invoked(f) = {}

\* l1 unsubscribed l2 during the publish: the call returned after invoking
\* l1 alone.
C24_Witness ==
    /\ JustReturned
    /\ last.ops = {"unsubscribe"}
    /\ last.snapshot = {"l1", "l2"}
    /\ last.early = {"l2"}
    /\ last.calls = <<<<"l1", last.payload>>>>
    /\ Subscribers(channels, last.event) = {"l1"}

\* C25: a listener that throws during publish(c, p) leaves the registry as it
\* was, and the bus stays usable: a publish on c that outside code calls
\* after a publish on c ended with a listener's exception, and during which
\* no listener calls a bus operation, invokes every listener that is
\* subscribed to c.
C25_UsableAfterThrow ==
    [][/\ (last'.op = "publish" /\ last'.result = "raised") => channels' = channels
       /\ (/\ last'.op = "publish"
           /\ Len(stack') = 0
           /\ last'.ops = {}
           /\ last'.event \in seen.policies)
             => last'.snapshot \subseteq Invoked(last')]_vars

\* C26: publish invokes the listeners of its channel in the order of their
\* subscription.  A subscribe of a reference that is already subscribed
\* leaves the order as it was; a subscribe of a reference that is not (never
\* subscribed, or unsubscribed since) puts it behind all the others; an
\* unsubscribe leaves the others in their order; and a publish during which
\* no listener calls a bus operation invokes the listeners in that order.
C26_SubscriptionOrder ==
    [][/\ (last'.op = "subscribe" /\ last'.listener \in Subscribers(channels, last'.event))
             => channels'[last'.event] = channels[last'.event]
       /\ (last'.op = "subscribe" /\ last'.listener \notin Subscribers(channels, last'.event))
             => channels'[last'.event] =
                    Append(IF HasEntry(channels, last'.event)
                           THEN channels[last'.event] ELSE <<>>, last'.listener)
       /\ (last'.op \in {"unsubscribe", "unsubscribeFn"} /\ HasEntry(channels', last'.event))
             => channels'[last'.event] =
                    SelectSeq(channels[last'.event], LAMBDA x : x # last'.listener)
       /\ (JustReturned' /\ last'.ops = {})
             => [i \in 1..Len(last'.calls) |-> last'.calls[i][1]] =
                    (IF HasEntry(channels', last'.event)
                     THEN channels'[last'.event] ELSE <<>>)]_vars

\* l1 was subscribed to 'message', unsubscribed through the function its
\* subscribe returned and subscribed again: the publish invoked l2 before l1.
C26_Witness ==
    /\ JustReturned
    /\ last.ops = {}
    /\ last.event = "message"
    /\ \E f \in fns : f.event = "message" /\ f.listener = "l1" /\ f.called /\ f.resub
    /\ HasEntry(channels, "message")
    /\ channels["message"] = <<"l2", "l1">>
    /\ last.calls = <<<<"l2", last.payload>>, <<"l1", last.payload>>>>

\* C27: subscriptions are not counted.  One unsubscribe(c, l), or one call of
\* a function subscribe returned for (c, l), leaves l not subscribed to c,
\* also when it follows a subscribe(c, l) of a reference that was subscribed
\* already; and a publish on c begins with, and when its listeners call no
\* bus operation invokes, the listeners subscribed to c and no other.
C27_NotReferenceCounted ==
    [][/\ last'.op \in {"unsubscribe", "unsubscribeFn"} =>
             last'.listener \notin Subscribers(channels', last'.event)
       /\ (/\ last.op = "subscribe"
           /\ last.listener \in Subscribers(last.before, last.event)
           /\ last'.op \in {"unsubscribe", "unsubscribeFn"}
           /\ last'.event = last.event
           /\ last'.listener = last.listener)
             => /\ last'.found
                /\ Subscribers(channels', last.event) =
                       Subscribers(last.before, last.event) \ {last.listener}
       /\ Len(stack') > Len(stack) =>
             stack'[Len(stack')].snapshot =
                 Subscribers(channels, stack'[Len(stack')].event)
       /\ (JustReturned' /\ last'.ops = {}) =>
             Invoked(last') = Subscribers(channels', last'.event)]_vars

\* During a publish a listener body subscribed a listener that was subscribed
\* to the channel already and then unsubscribed it once: it is not
\* subscribed any more.
C27_Witness ==
    /\ Len(stack) = 1
    /\ Top.ops = {"subscribe", "unsubscribe"}
    /\ opsLeft = 0
    /\ last.op = "unsubscribe"
    /\ last.found
    /\ last.event = Top.event
    /\ last.listener \in Top.subd \cap Top.snapshot
    /\ last.listener \notin Subscribers(channels, Top.event)

\* C28: nested dispatch is depth-first.  While a publish that a listener body
\* called is in progress, the publish calls below it on the call stack
\* neither invoke a listener nor return, and their listener stays in its
\* body; a nested publish returns with its loop past every entry of its Set;
\* and an outer publish during which listeners called nothing but publish
\* goes on to invoke every listener of its channel exactly once.
C28_DepthFirst ==
    [][/\ Len(stack') >= Len(stack) - 1
       /\ \A i \in 1..Len(stack) :
             i < Len(stack) =>
                 /\ Len(stack') >= i
                 /\ stack'[i].calls = stack[i].calls
                 /\ stack'[i].running = stack[i].running
                 /\ stack'[i].running # NoListener
       /\ (JustReturned' /\ Len(stack') < Len(stack) /\ Len(stack') > 0) =>
             /\ stack[Len(stack)].pos >= Len(Iterated(channels, stack[Len(stack)]))
             /\ stack'[Len(stack')].running = stack[Len(stack')].running
       /\ (JustReturned' /\ last'.ops = {"publish"}) =>
             \A l \in Listeners :
                 Times(last', l) = (IF l \in last'.snapshot THEN 1 ELSE 0)]_vars

\* l1, the first of the two listeners of 'message', published on 'count':
\* that publish invoked both listeners of 'count' and returned, while the
\* publish on 'message' is still in the body of l1 with l2 to come.
C28_Witness ==
    /\ JustReturned
    /\ last.event = "count"
    /\ last.ops = {}
    /\ Len(last.calls) = 2
    /\ Len(stack) = 1
    /\ Top.event = "message"
    /\ Top.running = "l1"
    /\ Top.pos = 1
    /\ Top.attached
    /\ Len(channels["message"]) = 2

\* C29: the users of the store have pairwise distinct ids.
C29_DistinctIds ==
    \A i \in 1..Len(users) : \A j \in 1..Len(users) :
        i # j => users[i].id # users[j].id

====
